---------------------------- MODULE Spec2Model ----------------------------
(* Model of the map / shape-placement / cluster core of CartographRL.      *)
(* The map model follows src/cartographRL/game/model/map.py (class Map and *)
(* class Cluster); the cluster labelling follows the helpers of            *)
(* src/carthographRL/game/scoring.py; the matrix shape transform follows   *)
(* src/cartographRL/model/implementations/cartographers_v1.py.             *)
EXTENDS Integers, Sequences, FiniteSets, TLC

(* ------------------------------ bounds --------------------------------- *)
\* side length of the square map handed to Map.__init__
MapSize == 3
\* number of Map.place calls in one behaviour
MaxPlace == 1
\* number of mountain cells handed to Map.__init__ for the read-only calls
MaxMountains == 2
\* shapes for the transform laws are drawn from the columns 0..MaxOffset
MaxOffset == 2
\* number of successive transform applications followed in one behaviour
MaxSteps == 4
\* side lengths of the boolean shape matrices handed to _transform_shape
MaxMatrix == 2
\* villages placed before the clusters are read
MaxVillages == 7
MaxFields == 3
MaxPlays == 2
MaxOption == 3

(* ------------------------------ terrains ------------------------------- *)
VILLAGE == 1
WATER == 2
FOREST == 3
FARM == 4
MONSTER == 5
EMPTY == 6
MOUNTAIN == 7
WASTE == 8
\* single_field=None: no single field is asked for
NoField == 0
Terrains == {VILLAGE, WATER, FOREST, FARM, MONSTER, EMPTY, MOUNTAIN, WASTE}

VARIABLES
    terrain_map,   \* Map.terrain_map: cell -> terrain value
    ruin_coords,   \* Map.ruin_coords
    placed,        \* number of place calls made so far
    op,            \* the operation of the last call
    shape,         \* the shape_coords argument of the last call
    cluster,       \* place / is_setable: coords of the transformed Cluster
    terrain,       \* place: the terrain argument
    need_ruin,     \* the on_ruin argument of the last call
    valid,         \* place / is_setable: what cluster.is_valid returned
    result,        \* how the last call ended: "None", "True", "False" or the exception
    options,       \* setable_options: the yielded (rotation, position, mirror), in order
    found,         \* clusters: the returned coordinate sets, in label order
    t_orig,        \* transform laws: the shape the chain started from
    t_cur,         \* transform laws: the shape after the transforms applied so far
    t_rot,         \* transform laws: quarter turns applied so far
    t_mir,         \* transform laws: mirrors applied so far
    t_matrix,      \* _transform_shape: the boolean matrix argument
    t_arg,         \* last transform call: [fn, rotation, mirror] of the call
    t_out,         \* last transform call: [err, shape] it ended with
    e_fn,          \* the cluster method or scoring function called last
    e_arg,         \* its argument: the coordinates of the Cluster, or the terrain
    e_out,         \* [err, none, val]: the exception raised, whether None came back, the value
    game,          \* CarthographersGame: its fields, the deck as the list of card names
    g_call         \* the last call on the game: its arguments and how it ended

grid_vars == <<terrain_map, ruin_coords, placed, op, shape, cluster, terrain, need_ruin,
               valid, result, options, found>>
trans_vars == <<t_orig, t_cur, t_rot, t_mir, t_matrix, t_arg, t_out>>
eval_vars == <<e_fn, e_arg, e_out>>
game_vars == <<game, g_call>>
vars == <<terrain_map, ruin_coords, placed, op, shape, cluster, terrain, need_ruin,
          valid, result, options, found, t_orig, t_cur, t_rot, t_mir, t_matrix,
          t_arg, t_out, e_fn, e_arg, e_out, game, g_call>>

Rows == 0 .. (MapSize - 1)
Cells == Rows \X Rows

SetMin(S) == CHOOSE m \in S : \A n \in S : m <= n

(* ------------------------- Map.transform_to_map_coords ------------------ *)
\* mutation: the mirror written as a turn
mirror_coords_as_turn(shape_coords) == {<<-c[2], c[1]>> : c \in shape_coords}

\* `if mirror: shape_coords = {(-x, y) ...}`
mirror_coords(shape_coords) == {<<-c[1], c[2]>> : c \in shape_coords}

\* mutation: y for x in the quarter-turn branch
rotate_coords_typo(shape_coords, rotation) ==
    CASE rotation = 0 -> shape_coords
      [] rotation = 1 -> {<<c[2], -c[2]>> : c \in shape_coords}
      [] rotation = 2 -> {<<-c[1], -c[2]>> : c \in shape_coords}
      [] rotation = 3 -> {<<-c[2], c[1]>> : c \in shape_coords}

\* the rotation branches for rotation in 0..3
rotate_coords(shape_coords, rotation) ==
    CASE rotation = 0 -> shape_coords
      [] rotation = 1 -> {<<c[2], -c[1]>> : c \in shape_coords}
      [] rotation = 2 -> {<<-c[1], -c[2]>> : c \in shape_coords}
      [] rotation = 3 -> {<<-c[2], c[1]>> : c \in shape_coords}

\* subtract min_x / min_y, then add the position
shift_coords(shape_coords, position) ==
    LET min_x == SetMin({c[1] : c \in shape_coords})
        min_y == SetMin({c[2] : c \in shape_coords})
    IN  {<<c[1] - min_x + position[1], c[2] - min_y + position[2]>> : c \in shape_coords}

\* mutation: no else branch, a rotation outside 0..3 leaves the shape unrotated
transform_to_map_coords_no_else(shape_coords, rotation, position, mirror) ==
    LET m == IF mirror THEN mirror_coords(shape_coords) ELSE shape_coords
    IN  IF m = {}
        THEN [err |-> "ValueError", coords |-> {}]
        ELSE [err |-> "none",
              coords |-> shift_coords(IF rotation \in 0..3 THEN rotate_coords(m, rotation)
                                      ELSE m, position)]

\* returns [err, coords]; err is "ValueError" for a rotation outside 0..3
\* (the else branch) and for an empty shape (min() of an empty sequence)
transform_to_map_coords(shape_coords, rotation, position, mirror) ==
    LET m == IF mirror THEN mirror_coords(shape_coords) ELSE shape_coords
    IN  IF rotation \notin 0..3
        THEN [err |-> "ValueError", coords |-> {}]
        ELSE IF m = {}
             THEN [err |-> "ValueError", coords |-> {}]
             ELSE [err |-> "none",
                   coords |-> shift_coords(rotate_coords(m, rotation), position)]

(* ------------------------------- Cluster -------------------------------- *)
on_map(coords) ==
    \A coord \in coords : /\ 0 <= coord[1] /\ coord[1] < MapSize
                          /\ 0 <= coord[2] /\ coord[2] < MapSize
\* mutation: all() instead of any()
is_occupied_all(coords, tm) == \A coord \in coords : tm[coord] # EMPTY

is_occupied(coords, tm) == \E coord \in coords : tm[coord] # EMPTY

on_ruin(coords, ruins) == Cardinality(coords \cap ruins) > 0

\* returns [ret, raised]: the three checks in the order of the code; an
\* InvalidMoveError is raised only when raise_error is set
is_valid(coords, req_ruin, raise_error, tm, ruins) ==
    IF ~on_map(coords)
    THEN [ret |-> FALSE, raised |-> IF raise_error THEN "OutOfBounds" ELSE "none"]
    ELSE IF is_occupied(coords, tm)
         THEN [ret |-> FALSE, raised |-> IF raise_error THEN "Occupied" ELSE "none"]
         ELSE IF req_ruin /\ ~on_ruin(coords, ruins)
              THEN [ret |-> FALSE,
                    raised |-> IF raise_error THEN "RuinRequired" ELSE "none"]
              ELSE [ret |-> TRUE, raised |-> "none"]

(* ------------------------------ Map.__init__ ---------------------------- *)
\* the constructor: every cell EMPTY, then the mountains, then the wastes
new_terrain_map(mountain_coords, waste_coords) ==
    [c \in Cells |-> IF c \in waste_coords THEN WASTE
                     ELSE IF c \in mountain_coords THEN MOUNTAIN
                     ELSE EMPTY]

\* constructor arguments the behaviours start from (map A scaled to MapSize:
\* ruins and mountains on distinct cells, no wastes; and a second sheet with
\* two mountain groups and a waste)
Layouts ==
    { [ruins |-> {<<0, 1>>}, mountains |-> {<<1, 1>>}, wastes |-> {}],
      [ruins |-> {<<2, 0>>}, mountains |-> {<<0, 0>>, <<0, 1>>, <<2, 2>>},
       wastes |-> {<<1, 2>>}] }

(* ------------------------------- Map.place ------------------------------ *)
\* numpy index assignment: every index is checked before anything is written;
\* an index in -MapSize..-1 addresses from the end
index_ok(coords) ==
    \A c \in coords : /\ -MapSize <= c[1] /\ c[1] < MapSize
                      /\ -MapSize <= c[2] /\ c[2] < MapSize

wrap_index(c) == <<c[1] % MapSize, c[2] % MapSize>>

\* mutation: the coordinates index the first axis only, whole rows are written
write_cells_rows(tm, coords, t) ==
    [c \in Cells |->
        IF c[1] \in {d[1] % MapSize : d \in coords} \cup {d[2] % MapSize : d \in coords}
        THEN t ELSE tm[c]]

\* mutation: row and column index swapped in the assignment
write_cells_swapped(tm, coords, t) ==
    [c \in Cells |-> IF c \in {wrap_index(<<d[2], d[1]>>) : d \in coords} THEN t ELSE tm[c]]

\* self.terrain_map[x_idx, y_idx] = terrain.value
write_cells(tm, coords, t) ==
    [c \in Cells |-> IF c \in {wrap_index(d) : d \in coords} THEN t ELSE tm[c]]

\* the Cluster validation as Map.place calls it: cluster.is_valid(on_ruin)
place_is_valid(coords, req_ruin, tm, ruins) ==
    is_valid(coords, req_ruin, FALSE, tm, ruins)

\* Map.place as [valid, result, map]
place(tm, ruins, shape_coords, t, rotation, position, mirror, req_ruin) ==
    LET tr == transform_to_map_coords(shape_coords, rotation, position, mirror)
    IN  IF tr.err # "none"
        THEN [coords |-> {}, valid |-> FALSE, result |-> tr.err, map |-> tm]
        ELSE LET v == place_is_valid(tr.coords, req_ruin, tm, ruins)
             IN  IF v.raised # "none"
                 THEN [coords |-> tr.coords, valid |-> v.ret, result |-> v.raised,
                       map |-> tm]
                 ELSE IF ~index_ok(tr.coords)
                      THEN [coords |-> tr.coords, valid |-> v.ret,
                            result |-> "IndexError", map |-> tm]
                      ELSE [coords |-> tr.coords, valid |-> v.ret, result |-> "None",
                            map |-> write_cells(tm, tr.coords, t)]

(* ------------------------------ Map.is_setable -------------------------- *)
\* [err, ret]
is_setable(tm, ruins, coords, rotation, position, mirror, req_ruin) ==
    LET tr == transform_to_map_coords(coords, rotation, position, mirror)
    IN  IF tr.err # "none"
        THEN [err |-> tr.err, ret |-> FALSE, coords |-> {}]
        ELSE [err |-> "none", ret |-> is_valid(tr.coords, req_ruin, FALSE, tm, ruins).ret,
              coords |-> tr.coords]

(* ---------------------------- Map.setable_options ----------------------- *)
\* the i-th combination of the nested loops: x, then y, then r, then mirror
loop_option(i) ==
    LET x == i \div (MapSize * 8)
        y == (i \div 8) % MapSize
        r == (i \div 2) % 4
        mirror == (i % 2) = 1
    IN  <<r, <<x, y>>, mirror>>

LoopLen == MapSize * MapSize * 8

\* the generator run to its end: the yielded triples in loop order; an empty
\* shape raises in the first is_setable call
setable_options(tm, ruins, shape_coords, req_ruin) ==
    IF shape_coords = {}
    THEN [err |-> "ValueError", seq |-> <<>>]
    ELSE LET setable(o) ==
                 is_setable(tm, ruins, shape_coords, o[1], o[2], o[3], req_ruin).ret
         IN  [err |-> "none",
              seq |-> SelectSeq([k \in 1 .. LoopLen |-> loop_option(k - 1)], setable)]

(* -------------------------- Map.is_setable_anywhere --------------------- *)
\* mutation: the except branch returns True as well
is_setable_anywhere_always(tm, ruins, coords, req_ruin) ==
    LET g == setable_options(tm, ruins, coords, req_ruin)
    IN  IF g.err # "none"
        THEN [err |-> g.err, ret |-> FALSE]
        ELSE [err |-> "none", ret |-> TRUE]

\* next() on the generator: True when it yields a first triple, False when
\* it ends at once (StopIteration)
is_setable_anywhere(tm, ruins, coords, req_ruin) ==
    LET g == setable_options(tm, ruins, coords, req_ruin)
    IN  IF g.err # "none"
        THEN [err |-> g.err, ret |-> FALSE]
        ELSE IF Len(g.seq) >= 1
             THEN [err |-> "none", ret |-> TRUE]
             ELSE [err |-> "none", ret |-> FALSE]

(* --------------------- _cluster_map / _clusters_coords ------------------ *)
\* mutation: corner neighbours are connected as well
adjacent_with_diagonals(c, d) ==
    /\ c # d
    /\ (c[1] - d[1]) \in {-1, 0, 1}
    /\ (c[2] - d[2]) \in {-1, 0, 1}

\* ski.measure.label(mask, background=False, connectivity=1): cells are
\* connected through their horizontal and vertical neighbours only
adjacent(c, d) ==
    \/ c[1] = d[1] /\ (c[2] = d[2] + 1 \/ d[2] = c[2] + 1)
    \/ c[2] = d[2] /\ (c[1] = d[1] + 1 \/ d[1] = c[1] + 1)

RECURSIVE flood(_, _, _)
flood(frontier, seen, mask) ==
    IF frontier = {} THEN seen
    ELSE LET nxt == {n \in mask \ seen : \E c \in frontier : adjacent(c, n)}
         IN  flood(nxt, seen \cup nxt, mask)

component(c, mask) == flood({c}, {c}, mask)

\* position of a cell in the row-major scan of the array
raster(c) == c[1] * MapSize + c[2]

first_cell(cells) == CHOOSE f \in cells : \A g \in cells : raster(f) <= raster(g)

\* the label image: 0 on the background, components numbered from 1 in the
\* order the row-major scan meets them
_cluster_map(tm, terrain_type) ==
    LET mask == {c \in Cells : tm[c] = terrain_type}
        firsts == {first_cell(component(c, mask)) : c \in mask}
    IN  [c \in Cells |->
            IF c \notin mask THEN 0
            ELSE LET f == first_cell(component(c, mask))
                 IN  1 + Cardinality({g \in firsts : raster(g) < raster(f)})]

\* np.unique: the distinct values, ascending
RECURSIVE unique(_)
unique(S) == IF S = {} THEN <<>>
             ELSE LET m == SetMin(S) IN <<m>> \o unique(S \ {m})

\* mutation: label 0 is not skipped
RECURSIVE clusters_with_background(_, _)
clusters_with_background(labels, cm) ==
    IF labels = <<>> THEN <<>>
    ELSE <<{c \in Cells : cm[c] = Head(labels)}>>
         \o clusters_with_background(Tail(labels), cm)

RECURSIVE clusters_of_labels(_, _)
clusters_of_labels(labels, cm) ==
    IF labels = <<>> THEN <<>>
    ELSE LET cluster_label == Head(labels)
             rest == clusters_of_labels(Tail(labels), cm)
         IN  IF cluster_label = 0 THEN rest
             ELSE <<{c \in Cells : cm[c] = cluster_label}>> \o rest

\* one coordinate set (np.argwhere) per label other than 0, in label order
_clusters_coords(tm, terrain_type) ==
    LET clusters == _cluster_map(tm, terrain_type)
    IN  clusters_of_labels(unique({clusters[c] : c \in Cells}), clusters)

(* ------------------------ Cluster: the surroundings --------------------- *)
\* how a call ends: with a value, with None, or with an exception
Returned(v) == [err |-> "none", none |-> FALSE, val |-> v]
ReturnedNone == [err |-> "none", none |-> TRUE, val |-> 0]
Raised(e) == [err |-> e, none |-> FALSE, val |-> 0]

SetMax(S) == CHOOSE m \in S : \A n \in S : n <= m

\* np.argwhere: the cells of a mask in row-major order
argwhere(cells) ==
    [i \in 1 .. Cardinality(cells) |->
        CHOOSE c \in cells : Cardinality({d \in cells : raster(d) < raster(c)}) = i - 1]

\* the cells under the footprint of connectivity 1 centred on c; a neighbour
\* beyond the border is reflected onto c itself
footprint(c) == {c} \cup {d \in Cells : adjacent(c, d)}

\* mutation: every mode gives the thick boundary
find_boundaries_thick(f, mode) ==
    {c \in Cells : footprint(c) \cap f # {} /\ footprint(c) \ f # {}}

\* ski.segmentation.find_boundaries(f, mode, connectivity=1) on a mask f with
\* one foreground label: a cell is on the boundary when dilation and erosion
\* differ on it; mode "outer" keeps the background cells of that boundary
find_boundaries(f, mode) ==
    LET boundaries == {c \in Cells : footprint(c) \cap f # {} /\ footprint(c) \ f # {}}
    IN  IF mode = "outer" THEN boundaries \ f ELSE boundaries

\* Cluster.surrounding_mask, for coords on the map
surrounding_mask(coords) == find_boundaries(coords, "outer")

surrounding_coords(coords) == argwhere(surrounding_mask(coords))

\* x_idx, y_idx = zip(*surrounding_coords) cannot be unpacked when there is
\* no surrounding cell
surrounding_terrains(coords, tm) ==
    LET sc == surrounding_coords(coords)
    IN  IF Len(sc) = 0 THEN Raised("ValueError")
        ELSE Returned([i \in 1 .. Len(sc) |-> tm[sc[i]]])

is_surrounded(coords, tm) ==
    LET st == surrounding_terrains(coords, tm)
    IN  IF st.err # "none" THEN Raised(st.err)
        ELSE Returned(\A i \in 1 .. Len(st.val) : st.val[i] # EMPTY)

\* Cluster(c, self) is built from one row c of the argwhere array, a pair of
\* integers and not a collection of coordinates: surrounding_mask's
\* zip(*self.coords) is zip(c[0], c[1]), a TypeError
row_is_surrounded(c, tm) == Raised("TypeError")

get_surrounded_mountains(tm) ==
    LET coords == argwhere({c \in Cells : tm[c] = MOUNTAIN})
        flags == [i \in 1 .. Len(coords) |-> row_is_surrounded(coords[i], tm)]
    IN  IF Len(coords) = 0 THEN Returned(0)
        ELSE IF flags[1].err # "none" THEN Raised(flags[1].err)
        ELSE Returned(Cardinality({i \in 1 .. Len(coords) : flags[i].val}))

\* Map.eval_monsters: one Cluster of every Monster cell; with no Monster cell
\* zip(*self.coords) in surrounding_mask cannot be unpacked
eval_monsters(tm) ==
    LET coords == {c \in Cells : tm[c] = MONSTER}
    IN  IF coords = {} THEN Raised("ValueError")
        ELSE LET st == surrounding_terrains(coords, tm)
             IN  IF st.err # "none" THEN Raised(st.err)
                 ELSE Returned(Cardinality({i \in 1 .. Len(st.val) : st.val[i] = EMPTY}))

(* ------------------------------ scoring.py ------------------------------ *)
\* mutation: every village cluster counts, whatever its size
bastionen_no_threshold(tm) ==
    LET cluster_coords == _clusters_coords(tm, VILLAGE)
    IN  Returned(Len(cluster_coords) * 8)

\* 8 for each village cluster with len(c) >= 6
bastionen_der_wildnis(tm) ==
    LET cluster_coords == _clusters_coords(tm, VILLAGE)
    IN  Returned(Cardinality({i \in 1 .. Len(cluster_coords) :
                                 Cardinality(cluster_coords[i]) >= 6}) * 8)

\* terrain_map[cluster_coords] with an (N, 2) integer array indexes the first
\* axis only: every number in cluster_coords, row or column, selects a whole
\* row of the map
indexed_rows(cluster_coords) ==
    {c[1] : c \in cluster_coords} \cup {c[2] : c \in cluster_coords}

rows_values(tm, cluster_coords) ==
    {tm[<<r, j>>] : r \in indexed_rows(cluster_coords), j \in Rows}

metropole(tm) ==
    LET clusters_coords == _clusters_coords(tm, VILLAGE)
        valid_cluster_sizes ==
            {Cardinality(clusters_coords[i]) :
                i \in {k \in 1 .. Len(clusters_coords) :
                          MOUNTAIN \notin rows_values(tm, clusters_coords[k])}}
    IN  Returned(IF valid_cluster_sizes # {} THEN SetMax(valid_cluster_sizes) ELSE 0)

\* np.sort: ascending, duplicates kept
np_sort(seq) ==
    [k \in 1 .. Len(seq) |->
        CHOOSE v \in {seq[i] : i \in 1 .. Len(seq)} :
            /\ Cardinality({i \in 1 .. Len(seq) : seq[i] < v}) < k
            /\ k <= Cardinality({i \in 1 .. Len(seq) : seq[i] <= v})]

\* np.unique(clusters, return_counts=True): label 0, the background, is one
\* of the labels and its cell count one of the sizes
schild_des_reiches(tm) ==
    LET clusters == _cluster_map(tm, VILLAGE)
        cluster_labels == unique({clusters[c] : c \in Cells})
        cluster_sizes == [i \in 1 .. Len(cluster_labels) |->
                             Cardinality({c \in Cells : clusters[c] = cluster_labels[i]})]
    IN  IF Len(cluster_labels) < 3 THEN Returned(0)
        ELSE Returned(np_sort(cluster_sizes)[Len(cluster_sizes) - 1] * 2)

\* scoring.py defines _boundaries_values and _clusters_coords; the two names
\* below are called but defined nowhere
_boundary_values_by_cluster(tm, terrain_type) == Raised("NameError")

_cluster_coords(tm, terrain_type) == Raised("NameError")

\* list.remove(EMPTY) raises ValueError when EMPTY is not in the list
schillernde_ebene(tm) ==
    LET boundarys_values == _boundary_values_by_cluster(tm, VILLAGE)
        uniq(i) == {boundarys_values.val[i][k] : k \in 1 .. Len(boundarys_values.val[i])}
        n == Len(boundarys_values.val)
    IN  IF boundarys_values.err # "none" THEN Raised(boundarys_values.err)
        ELSE IF \E i \in 1 .. n : EMPTY \notin uniq(i) THEN Raised("ValueError")
        ELSE Returned(3 * Cardinality({i \in 1 .. n :
                                          Cardinality(uniq(i) \ {EMPTY}) >= 3}))

gnomkolonie(tm) ==
    LET clusters_coords == _cluster_coords(tm, VILLAGE)
        needed_coords(c) == {c, <<c[1], c[2] + 1>>, <<c[1] + 1, c[2]>>,
                             <<c[1] + 1, c[2] + 1>>}
        n == Len(clusters_coords.val)
    IN  IF clusters_coords.err # "none" THEN Raised(clusters_coords.err)
        ELSE Returned(6 * Cardinality({i \in 1 .. n :
                 \E c \in clusters_coords.val[i] :
                     needed_coords(c) \subseteq clusters_coords.val[i]}))

\* the function ends after its loop, without a return statement
pfad_des_waldes(tm) ==
    LET boundaries_values == _boundary_values_by_cluster(tm, FOREST)
    IN  IF boundaries_values.err # "none" THEN Raised(boundaries_values.err)
        ELSE ReturnedNone

goldener_kornspeicher(tm) == Raised("NotImplementedError")

\* the entries of SCORING_CARDS modelled here, with the terrain each reads
ScoringCards ==
    {"bastionen_der_wildnis", "metropole", "schild_des_reiches", "schillernde_ebene",
     "gnomkolonie", "pfad_des_waldes", "goldener_kornspeicher"}

target_terrains(card) ==
    IF card = "pfad_des_waldes" THEN {FOREST}
    ELSE IF card = "goldener_kornspeicher" THEN {WATER, FARM}
    ELSE {VILLAGE}

evaluate(card, tm) ==
    CASE card = "bastionen_der_wildnis" -> bastionen_der_wildnis(tm)
      [] card = "metropole" -> metropole(tm)
      [] card = "schild_des_reiches" -> schild_des_reiches(tm)
      [] card = "schillernde_ebene" -> schillernde_ebene(tm)
      [] card = "gnomkolonie" -> gnomkolonie(tm)
      [] card = "pfad_des_waldes" -> pfad_des_waldes(tm)
      [] card = "goldener_kornspeicher" -> goldener_kornspeicher(tm)

\* np.argwhere(map_sheet == value): elementwise on a terrain array; the Map
\* object that ScoringCard.evaluate is handed defines no __eq__, the comparison
\* is the bool False and its argwhere has no rows
argwhere_equal(map_sheet, value, is_array) ==
    IF is_array THEN argwhere({c \in Cells : map_sheet[c] = value}) ELSE <<>>

\* value in map_sheet[np.argwhere(surrounding_mask)] for the one-cell mask f
\* of idx: the (N, 2) index array selects whole rows
in_surrounding(map_sheet, idx, value) ==
    value \in rows_values(map_sheet, find_boundaries({idx}, "outer"))

tal_der_magier(map_sheet, is_array) ==
    LET water == argwhere_equal(map_sheet, WATER, is_array)
        farm == argwhere_equal(map_sheet, FARM, is_array)
    IN  Returned(2 * Cardinality({i \in 1 .. Len(water) :
                                     in_surrounding(map_sheet, water[i], MOUNTAIN)})
                 + Cardinality({i \in 1 .. Len(farm) :
                                   in_surrounding(map_sheet, farm[i], MOUNTAIN)}))

bewaesserungskanal(map_sheet, is_array) ==
    LET water == argwhere_equal(map_sheet, WATER, is_array)
        farm == argwhere_equal(map_sheet, FARM, is_array)
    IN  Returned(Cardinality({i \in 1 .. Len(water) :
                                 in_surrounding(map_sheet, water[i], FARM)})
                 + Cardinality({i \in 1 .. Len(farm) :
                                   in_surrounding(map_sheet, farm[i], WATER)}))

(* -------------------- Cartographers._transform_shape -------------------- *)
\* a Python list index: -1 stands for IndexError, otherwise the 0-based slot
list_index(i, len) == IF i >= len \/ i < -len THEN -1 ELSE i % len

\* the body of the inner loop for one True cell: the (x, y) it leaves behind
transform_cell(x, y, rotation, flip, h, w) ==
    LET r == CASE rotation = 1 -> <<y, -x + h - 1>>
               [] rotation = 2 -> <<-x + h - 1, -y + w - 1>>
               [] rotation = 3 -> <<-y + w - 1, x>>
               [] OTHER -> <<x, y>>
    IN  IF flip THEN <<-r[1] + h - 1, r[2]>> ELSE r

\* the inner loop over one row from column x on; y is the loop variable of
\* the outer loop, which the body overwrites; marks are the slots set so far
RECURSIVE scan_row(_, _, _, _, _, _, _)
scan_row(row, x, y, rotation, flip, hw, marks) ==
    IF x >= Len(row) THEN [err |-> "none", marks |-> marks]
    ELSE IF ~row[x + 1] THEN scan_row(row, x + 1, y, rotation, flip, hw, marks)
    ELSE LET c == transform_cell(x, y, rotation, flip, hw[1], hw[2])
             i == list_index(c[1], hw[2])
             j == list_index(c[2], hw[1])
         IN  IF i = -1 \/ j = -1
             THEN [err |-> "IndexError", marks |-> marks]
             ELSE scan_row(row, x + 1, c[2], rotation, flip, hw, marks \cup {<<i, j>>})

RECURSIVE scan_rows(_, _, _, _, _, _)
scan_rows(shape_rows, y, rotation, flip, hw, marks) ==
    IF y >= Len(shape_rows) THEN [err |-> "none", marks |-> marks]
    ELSE LET r == scan_row(shape_rows[y + 1], 0, y, rotation, flip, hw, marks)
         IN  IF r.err # "none" THEN r
             ELSE scan_rows(shape_rows, y + 1, rotation, flip, hw, r.marks)

\* [err, shape]: `rotation = rotation % 4`, then new_shape with len(shape[0])
\* rows of len(shape) cells; shape[0] of an empty list is an IndexError
_transform_shape(shape_rows, rotation_arg, flip) ==
    LET rotation == rotation_arg % 4
    IN  IF Len(shape_rows) = 0 THEN [err |-> "IndexError", shape |-> <<>>]
        ELSE LET h == Len(shape_rows)
                 w == Len(shape_rows[1])
                 r == scan_rows(shape_rows, 0, rotation, flip, <<h, w>>, {})
             IN  IF r.err # "none" THEN [err |-> r.err, shape |-> <<>>]
                 ELSE [err |-> "none",
                       shape |-> [i \in 1 .. w |->
                                    [j \in 1 .. h |-> <<i - 1, j - 1>> \in r.marks]]]

(* ------------------------------ exploration.py -------------------------- *)
ExplorationOption(coin, coords, t) ==
    [coin |-> coin, coords |-> coords, terrain |-> t]

\* the cards by name, in the order of the lists
EXPLORATION_CARDS ==
    <<"Grosser Strom", "Ackerland", "Weiler", "Vergessener Wald", "Sumpf", "Obsthain",
      "Baumwipfeldorf", "Hinterlandbach", "Gehoeft", "Fischerdorf", "Splitterland">>

MONSTER_CARDS ==
    <<"Grottenschratueberfall", "Goblinattacke", "Koboldansturm", "Gnollangriff">>

RUIN_CARDS == <<"Verfallener Aussenposten", "Tempelruinen">>

SeqRange(seq) == {seq[i] : i \in 1 .. Len(seq)}

\* ExplorationCard.time
card_time(name) ==
    CASE name \in {"Grosser Strom", "Ackerland", "Weiler", "Vergessener Wald"} -> 1
      [] name = "Splitterland" -> 0
      [] OTHER -> 2

\* ExplorationCard.options
card_options(name) ==
    CASE name = "Grosser Strom" ->
           <<ExplorationOption(TRUE, {<<0, 0>>, <<1, 0>>, <<2, 0>>}, WATER),
             ExplorationOption(FALSE, {<<0, 2>>, <<1, 1>>, <<1, 2>>, <<2, 0>>, <<2, 1>>},
                               WATER)>>
      [] name = "Ackerland" ->
           <<ExplorationOption(TRUE, {<<0, 0>>, <<1, 0>>}, FARM),
             ExplorationOption(FALSE, {<<0, 1>>, <<1, 0>>, <<1, 1>>, <<1, 2>>, <<2, 1>>},
                               FARM)>>
      [] name = "Weiler" ->
           <<ExplorationOption(TRUE, {<<0, 0>>, <<1, 0>>, <<1, 1>>}, VILLAGE),
             ExplorationOption(FALSE, {<<0, 0>>, <<0, 1>>, <<0, 2>>, <<1, 0>>, <<1, 1>>},
                               VILLAGE)>>
      [] name = "Vergessener Wald" ->
           <<ExplorationOption(TRUE, {<<0, 0>>, <<1, 1>>}, FOREST),
             ExplorationOption(FALSE, {<<0, 0>>, <<1, 0>>, <<1, 1>>, <<2, 1>>}, FOREST)>>
      [] name = "Sumpf" ->
           <<ExplorationOption(FALSE, {<<0, 0>>, <<1, 0>>, <<1, 1>>, <<1, 2>>, <<2, 0>>},
                               WATER),
             ExplorationOption(FALSE, {<<0, 0>>, <<1, 0>>, <<1, 1>>, <<1, 2>>, <<2, 0>>},
                               FOREST)>>
      [] name = "Obsthain" ->
           <<ExplorationOption(FALSE, {<<0, 0>>, <<0, 1>>, <<0, 2>>, <<1, 2>>}, FARM),
             ExplorationOption(FALSE, {<<0, 0>>, <<0, 1>>, <<0, 2>>, <<1, 2>>}, FOREST)>>
      [] name = "Baumwipfeldorf" ->
           <<ExplorationOption(FALSE, {<<0, 2>>, <<0, 3>>, <<1, 0>>, <<1, 1>>, <<1, 2>>},
                               VILLAGE),
             ExplorationOption(FALSE, {<<0, 2>>, <<0, 3>>, <<1, 0>>, <<1, 1>>, <<1, 2>>},
                               FOREST)>>
      [] name = "Hinterlandbach" ->
           <<ExplorationOption(FALSE, {<<0, 0>>, <<0, 1>>, <<0, 2>>, <<1, 0>>, <<2, 0>>},
                               WATER),
             ExplorationOption(FALSE, {<<0, 0>>, <<0, 1>>, <<0, 2>>, <<1, 0>>, <<2, 0>>},
                               FARM)>>
      [] name = "Gehoeft" ->
           <<ExplorationOption(FALSE, {<<0, 0>>, <<1, 0>>, <<1, 1>>, <<2, 0>>}, VILLAGE),
             ExplorationOption(FALSE, {<<0, 0>>, <<1, 0>>, <<1, 1>>, <<2, 0>>}, FARM)>>
      [] name = "Fischerdorf" ->
           <<ExplorationOption(FALSE, {<<0, 0>>, <<0, 1>>, <<0, 2>>, <<0, 3>>}, VILLAGE),
             ExplorationOption(FALSE, {<<0, 0>>, <<0, 1>>, <<0, 2>>, <<0, 3>>}, WATER)>>
      [] name = "Splitterland" ->
           <<ExplorationOption(FALSE, {<<0, 0>>}, FOREST),
             ExplorationOption(FALSE, {<<0, 0>>}, FARM),
             ExplorationOption(FALSE, {<<0, 0>>}, VILLAGE),
             ExplorationOption(FALSE, {<<0, 0>>}, WATER),
             ExplorationOption(FALSE, {<<0, 0>>}, MONSTER)>>
      [] OTHER -> <<>>

\* MonsterCard.coords
monster_coords(name) ==
    CASE name = "Grottenschratueberfall" -> {<<0, 0>>, <<0, 2>>, <<1, 0>>, <<1, 2>>}
      [] name = "Goblinattacke" -> {<<0, 0>>, <<1, 1>>, <<2, 2>>}
      [] name = "Koboldansturm" -> {<<0, 0>>, <<1, 0>>, <<1, 1>>, <<2, 0>>}
      [] name = "Gnollangriff" -> {<<0, 0>>, <<0, 1>>, <<1, 0>>, <<2, 0>>, <<2, 1>>}
      [] OTHER -> {}

(* --------------------------- CarthographersGame ------------------------- *)
\* CardDeck.draw: self.cards.pop(0), IndexError on an empty list
draw(cards) ==
    IF cards = <<>> THEN [err |-> "IndexError", card |-> "None", cards |-> cards]
    ELSE [err |-> "none", card |-> Head(cards), cards |-> Tail(cards)]

\* the modes "random" and "max_borders" call self.map_sheet.setable_actions,
\* which no Map defines; "solo" is not implemented; any other mode string
\* matches no branch and the card is dropped
_set_monster(g, tm, ruins, monster_card) ==
    LET fits == is_setable_anywhere(tm, ruins, monster_coords(monster_card), FALSE)
    IN  IF fits.err # "none" THEN fits.err
        ELSE CASE g.monster_mode = "random" -> "AttributeError"
               [] g.monster_mode = "solo" -> "NotImplementedError"
               [] g.monster_mode = "max_borders" -> "AttributeError"
               [] OTHER -> "none"

\* on_ruin or self.ruin: a None or a False on_ruin leaves self.ruin
setable_option_exists(g, tm, ruins, req_ruin) ==
    LET opts == card_options(g.exploration_card)
    IN  \E i \in 1 .. Len(opts) :
            is_setable_anywhere(tm, ruins, opts[i].coords, req_ruin \/ g.ruin).ret

\* mutation: the ruin flag is never taken back
keep_ruin(g, tm, ruins) == g

\* the two ifs that follow the assignment of the drawn exploration card
clear_ruin(g, tm, ruins) ==
    LET g1 == IF /\ g.ruin
                 /\ ~setable_option_exists(g, tm, ruins, FALSE)
                 /\ setable_option_exists(g, tm, ruins, FALSE)
              THEN [g EXCEPT !.ruin = FALSE] ELSE g
    IN  IF ~setable_option_exists(g1, tm, ruins, FALSE)
        THEN [g1 EXCEPT !.ruin = FALSE] ELSE g1

\* the while loop from the state g on: [game, err]
RECURSIVE draw_loop(_, _, _)
draw_loop(g, tm, ruins) ==
    LET d == draw(g.cards)
        g1 == [g EXCEPT !.cards = d.cards]
    IN  IF d.err # "none" THEN [game |-> g1, err |-> d.err]
        ELSE IF d.card \in SeqRange(RUIN_CARDS)
        THEN draw_loop([g1 EXCEPT !.ruin = TRUE], tm, ruins)
        ELSE IF d.card \in SeqRange(MONSTER_CARDS)
        THEN LET e == _set_monster(g1, tm, ruins, d.card)
             IN  IF e # "none" THEN [game |-> g1, err |-> e]
                 ELSE draw_loop(g1, tm, ruins)
        ELSE IF d.card \in SeqRange(EXPLORATION_CARDS)
        THEN [game |-> clear_ruin([g1 EXCEPT !.exploration_card = d.card], tm, ruins),
              err |-> "none"]
        ELSE draw_loop(g1, tm, ruins)

_draw_exploration_card(g, tm, ruins) ==
    draw_loop([g EXCEPT !.exploration_card = "None", !.ruin = FALSE], tm, ruins)

\* self.map_sheet.surrounded_mountains is no method of any Map (the method is
\* get_surrounded_mountains): the season is over, the coins are noted, and the
\* call raises before the season is counted up
_update_season(g) ==
    IF g.season >= Len(g.season_times) THEN [game |-> g, err |-> "IndexError"]
    ELSE IF g.time < g.season_times[g.season + 1] THEN [game |-> g, err |-> "none"]
    ELSE [game |-> [g EXCEPT !.season_stats[g.season + 1] = g.coins_from_options],
          err |-> "AttributeError"]

\* mutation: a finished game is played on
validate_play_after_end(g, tm, ruins, i_option, single_field) ==
    IF g.exploration_card = "None" THEN "AttributeError"
    ELSE IF Len(card_options(g.exploration_card)) < i_option THEN "InvalidMoveError"
    ELSE IF single_field # NoField /\ setable_option_exists(g, tm, ruins, FALSE)
    THEN "InvalidMoveError"
    ELSE "none"

\* mutation: a single field is accepted whatever the options allow
validate_play_any_single(g, tm, ruins, i_option, single_field) ==
    IF g.season >= Len(g.season_times) THEN "InvalidMoveError"
    ELSE IF g.exploration_card = "None" THEN "AttributeError"
    ELSE IF Len(card_options(g.exploration_card)) < i_option THEN "InvalidMoveError"
    ELSE "none"

\* "validate input": the three checks of play; without a card in hand
\* self.exploration_card.options is an attribute of None
validate_play(g, tm, ruins, i_option, single_field) ==
    IF g.season >= Len(g.season_times) THEN "InvalidMoveError"
    ELSE IF g.exploration_card = "None" THEN "AttributeError"
    ELSE IF Len(card_options(g.exploration_card)) < i_option THEN "InvalidMoveError"
    ELSE IF single_field # NoField /\ setable_option_exists(g, tm, ruins, FALSE)
    THEN "InvalidMoveError"
    ELSE "none"

\* play as [game, map, result, stage]: the game and the map it leaves behind,
\* "None" or the exception, and how far it came: "validate", "place", "season"
\* (_update_season) or "draw" (_draw_exploration_card)
play(g, tm, ruins, i_option, position, rotation, mirror, single_field) ==
    LET v == validate_play(g, tm, ruins, i_option, single_field)
        opts == card_options(g.exploration_card)
        i == list_index(i_option, Len(opts))
    IN  IF v # "none" THEN [game |-> g, map |-> tm, result |-> v, stage |-> "validate"]
        ELSE IF i = -1
        THEN [game |-> g, map |-> tm, result |-> "IndexError", stage |-> "validate"]
        ELSE
        LET exploration_option == opts[i + 1]
            shape_coords == IF single_field # NoField THEN {<<0, 0>>}
                            ELSE exploration_option.coords
            t == IF single_field # NoField THEN single_field
                 ELSE exploration_option.terrain
            p == place(tm, ruins, shape_coords, t, rotation, position, mirror, g.ruin)
            coins == IF single_field = NoField /\ exploration_option.coin
                     THEN g.coins_from_options + 1 ELSE g.coins_from_options
            u == _update_season([g EXCEPT !.coins_from_options = coins,
                                          !.time = g.time + card_time(g.exploration_card)])
            d == _draw_exploration_card(u.game, p.map, ruins)
        IN  IF p.result # "None"
            THEN [game |-> g, map |-> tm, result |-> p.result, stage |-> "place"]
            ELSE IF u.err # "none"
            THEN [game |-> u.game, map |-> p.map, result |-> u.err, stage |-> "season"]
            ELSE [game |-> d.game, map |-> p.map,
                  result |-> IF d.err # "none" THEN d.err ELSE "None", stage |-> "draw"]


(* ------------------------------- inputs --------------------------------- *)
\* shapes of the exploration cards Splitterland, Ackerland and Weiler
PlaceShapes == { {<<0, 0>>}, {<<0, 0>>, <<1, 0>>}, {<<0, 0>>, <<1, 0>>, <<1, 1>>} }
PlaceTerrains == {VILLAGE, WATER}
Rotations == 0 .. 3
BadRotations == {-1, 4}

(* ------------------------------- the map -------------------------------- *)
NoCall ==
    /\ op = "init" /\ shape = {} /\ cluster = {} /\ terrain = EMPTY
    /\ need_ruin = FALSE /\ valid = FALSE /\ result = "None"
    /\ options = <<>> /\ found = <<>>

NoEval ==
    /\ e_fn = "none" /\ e_arg = {} /\ e_out = [err |-> "none", none |-> FALSE, val |-> 0]

\* no game is being played
NoGame ==
    /\ game = [season |-> 0, time |-> 0, ruin |-> FALSE, exploration_card |-> "None",
               cards |-> <<>>, coins_from_options |-> 0, season_times |-> <<>>,
               monster_mode |-> "random", season_stats |-> <<>>]
    /\ g_call = [fn |-> "none", n |-> 0, i_option |-> 0, position |-> <<0, 0>>,
                 rotation |-> 0, mirror |-> FALSE, single_field |-> 0,
                 result |-> "None", stage |-> "none", drawn |-> <<>>]

NoTransform ==
    /\ t_orig = {} /\ t_cur = {} /\ t_rot = 0 /\ t_mir = 0
    /\ t_matrix = <<>>
    /\ t_arg = [fn |-> "none", rotation |-> 0, mirror |-> FALSE]
    /\ t_out = [err |-> "none", shape |-> {}]

Init ==
    /\ \E l \in Layouts :
          /\ terrain_map = new_terrain_map(l.mountains, l.wastes)
          /\ ruin_coords = l.ruins
    /\ placed = 0
    /\ NoCall
    /\ NoTransform
    /\ NoEval
    /\ NoGame

Place(shape_coords, t, rotation, position, mirror, req_ruin) ==
    /\ placed < MaxPlace
    /\ LET p == place(terrain_map, ruin_coords, shape_coords, t, rotation, position,
                      mirror, req_ruin)
       IN  /\ terrain_map' = p.map
           /\ cluster' = p.coords
           /\ valid' = p.valid
           /\ result' = p.result
           /\ placed' = placed + 1
    /\ op' = "place"
    /\ shape' = shape_coords
    /\ terrain' = t
    /\ need_ruin' = req_ruin
    /\ options' = <<>>
    /\ found' = <<>>
    /\ UNCHANGED <<game_vars, ruin_coords, trans_vars, eval_vars>>

IsSetable(coords, rotation, position, mirror, req_ruin) ==
    /\ LET r == is_setable(terrain_map, ruin_coords, coords, rotation, position, mirror,
                           req_ruin)
       IN  /\ cluster' = r.coords
           /\ valid' = r.ret
           /\ result' = IF r.err # "none" THEN r.err
                        ELSE IF r.ret THEN "True" ELSE "False"
    /\ op' = "is_setable"
    /\ shape' = coords
    /\ terrain' = EMPTY
    /\ need_ruin' = req_ruin
    /\ options' = <<>>
    /\ found' = <<>>
    /\ UNCHANGED <<game_vars, terrain_map, ruin_coords, placed, trans_vars, eval_vars>>

SetableOptions(shape_coords, req_ruin) ==
    /\ LET r == setable_options(terrain_map, ruin_coords, shape_coords, req_ruin)
       IN  /\ options' = r.seq
           /\ result' = IF r.err # "none" THEN r.err ELSE "None"
    /\ op' = "setable_options"
    /\ shape' = shape_coords
    /\ cluster' = {}
    /\ terrain' = EMPTY
    /\ need_ruin' = req_ruin
    /\ valid' = FALSE
    /\ found' = <<>>
    /\ UNCHANGED <<game_vars, terrain_map, ruin_coords, placed, trans_vars, eval_vars>>

IsSetableAnywhere(coords, req_ruin) ==
    /\ LET r == is_setable_anywhere(terrain_map, ruin_coords, coords, req_ruin)
       IN  result' = IF r.err # "none" THEN r.err
                     ELSE IF r.ret THEN "True" ELSE "False"
    /\ op' = "is_setable_anywhere"
    /\ shape' = coords
    /\ cluster' = {}
    /\ terrain' = EMPTY
    /\ need_ruin' = req_ruin
    /\ valid' = FALSE
    /\ options' = <<>>
    /\ found' = <<>>
    /\ UNCHANGED <<game_vars, terrain_map, ruin_coords, placed, trans_vars, eval_vars>>

Clusters(terrain_type) ==
    /\ found' = _clusters_coords(terrain_map, terrain_type)
    /\ op' = "clusters"
    /\ terrain' = terrain_type
    /\ shape' = {}
    /\ cluster' = {}
    /\ need_ruin' = FALSE
    /\ valid' = FALSE
    /\ result' = "None"
    /\ options' = <<>>
    /\ UNCHANGED <<game_vars, terrain_map, ruin_coords, placed, trans_vars, eval_vars>>

Next ==
    \/ \E s \in PlaceShapes, t \in PlaceTerrains, r \in Rotations, pos \in Cells,
          m \in BOOLEAN, q \in BOOLEAN : Place(s, t, r, pos, m, q)
    \/ \E s \in PlaceShapes \cup {{}}, t \in PlaceTerrains, r \in BadRotations,
          q \in BOOLEAN : Place(s, t, r, <<0, 0>>, FALSE, q)
    \/ \E t \in PlaceTerrains, r \in Rotations, m \in BOOLEAN, q \in BOOLEAN :
          Place({}, t, r, <<0, 0>>, m, q)

Spec == Init /\ [][Next]_vars

(* --------------------- the read-only calls on a fresh map --------------- *)
\* ruin sets and waste sets handed to Map.__init__
QueryRuins == { {<<0, 0>>}, {<<0, 1>>, <<2, 0>>} }
QueryWastes == { {}, {<<1, 2>>} }

InitQuery ==
    /\ \E mountain_coords \in SUBSET Cells, waste_coords \in QueryWastes,
          ruins \in QueryRuins :
          /\ Cardinality(mountain_coords) <= MaxMountains
          /\ ruins \cap (mountain_coords \cup waste_coords) = {}
          /\ terrain_map = new_terrain_map(mountain_coords, waste_coords)
          /\ ruin_coords = ruins
    /\ placed = 0
    /\ NoCall
    /\ NoTransform
    /\ NoEval
    /\ NoGame

\* one call per behaviour: the calls change nothing a later call reads
NextQuery ==
    /\ op = "init"
    /\ \/ \E s \in PlaceShapes \cup {{}}, q \in BOOLEAN : SetableOptions(s, q)
       \/ \E s \in PlaceShapes \cup {{}}, q \in BOOLEAN : IsSetableAnywhere(s, q)
       \/ \E s \in PlaceShapes, r \in Rotations \cup BadRotations, pos \in Cells,
             m \in BOOLEAN, q \in BOOLEAN : IsSetable(s, r, pos, m, q)
       \/ \E t \in Terrains : Clusters(t)

SpecQuery == InitQuery /\ [][NextQuery]_vars

(* --------------------------- the shape transforms ----------------------- *)
\* shape offsets need not be normalised: rows -1..1, columns 0..MaxOffset
Offsets == (-1 .. 1) \X (0 .. MaxOffset)
CallRotations == -1 .. 5

\* rectangular boolean matrices of up to MaxMatrix rows and columns, and []
Matrices ==
    {<<>>} \cup UNION {[1 .. h -> [1 .. w -> BOOLEAN]] : h \in 1 .. MaxMatrix,
                                                       w \in 1 .. MaxMatrix}

InitTransform ==
    /\ terrain_map = new_terrain_map({}, {})
    /\ ruin_coords = {}
    /\ placed = 0
    /\ NoCall
    /\ \/ t_orig \in SUBSET Offsets /\ t_matrix = <<>>
       \/ t_orig = {} /\ t_matrix \in Matrices
    /\ t_cur = t_orig
    /\ t_rot = 0
    /\ t_mir = 0
    /\ t_arg = [fn |-> "none", rotation |-> 0, mirror |-> FALSE]
    /\ t_out = [err |-> "none", shape |-> {}]
    /\ NoEval
    /\ NoGame

\* the next link of a chain: the transform applied to the previous result
ChainStep(rotation, mirror) ==
    /\ t_arg.fn \in {"none", "chain"}
    /\ t_out.err = "none"
    /\ t_rot + t_mir < MaxSteps
    /\ LET tr == transform_to_map_coords(t_cur, rotation, <<0, 0>>, mirror)
       IN  /\ t_out' = [err |-> tr.err, shape |-> tr.coords]
           /\ t_cur' = IF tr.err = "none" THEN tr.coords ELSE t_cur
           /\ t_rot' = IF tr.err = "none" /\ rotation = 1 THEN t_rot + 1 ELSE t_rot
           /\ t_mir' = IF tr.err = "none" /\ mirror THEN t_mir + 1 ELSE t_mir
    /\ t_arg' = [fn |-> "chain", rotation |-> rotation, mirror |-> mirror]
    /\ UNCHANGED <<game_vars, eval_vars, grid_vars, t_orig, t_matrix>>

QuarterTurn == ChainStep(1, FALSE)

MirrorStep == ChainStep(0, TRUE)

\* one call of Map.transform_to_map_coords on the drawn shape
TransformCall(rotation, position, mirror) ==
    /\ t_arg.fn = "none"
    /\ LET tr == transform_to_map_coords(t_orig, rotation, position, mirror)
       IN  t_out' = [err |-> tr.err, shape |-> tr.coords]
    /\ t_arg' = [fn |-> "transform_to_map_coords", rotation |-> rotation,
                 mirror |-> mirror]
    /\ UNCHANGED <<game_vars, eval_vars, grid_vars, t_orig, t_cur, t_rot, t_mir, t_matrix>>

\* one call of Cartographers._transform_shape on the drawn matrix
TransformShapeCall(rotation, flip) ==
    /\ t_arg.fn = "none"
    /\ t_out' = _transform_shape(t_matrix, rotation, flip)
    /\ t_arg' = [fn |-> "_transform_shape", rotation |-> rotation, mirror |-> flip]
    /\ UNCHANGED <<game_vars, eval_vars, grid_vars, t_orig, t_cur, t_rot, t_mir, t_matrix>>

NextTransform ==
    \/ QuarterTurn
    \/ MirrorStep
    \/ \E r \in CallRotations, m \in BOOLEAN : TransformCall(r, <<0, 0>>, m)
    \/ \E r \in CallRotations, f \in BOOLEAN : TransformShapeCall(r, f)

SpecTransform == InitTransform /\ [][NextTransform]_vars

(* ------------- clusters and scoring on a map with placed villages -------- *)
\* mountain sets handed to Map.__init__: none, the centre, a corner and an edge
ScoreMountains == { {}, {<<1, 1>>}, {<<0, 2>>, <<2, 1>>} }
ScoreRuins == {<<0, 1>>}
ClusterTerrains == {VILLAGE, MOUNTAIN, EMPTY}
\* the shape handed to the placement queries
QueryShape == {<<0, 0>>, <<1, 0>>}

InitScore ==
    /\ \E mountain_coords \in ScoreMountains :
          terrain_map = new_terrain_map(mountain_coords, {})
    /\ ruin_coords = ScoreRuins
    /\ placed = 0
    /\ NoCall
    /\ NoTransform
    /\ NoEval
    /\ NoGame

\* the clusters Map.clusters / _clusters_coords find on the current map
ClustersOnMap ==
    UNION {LET cc == _clusters_coords(terrain_map, t)
           IN  {cc[i] : i \in 1 .. Len(cc)} : t \in ClusterTerrains}

\* a single Village field (Splitterland) is placed; the fields are placed in
\* row-major order of their positions
PlaceVillage(position) ==
    /\ e_fn = "none" /\ op \in {"init", "place"}
    /\ placed < MaxVillages
    /\ \A c \in Cells : terrain_map[c] = VILLAGE => raster(c) < raster(position)
    /\ LET p == place(terrain_map, ruin_coords, {<<0, 0>>}, VILLAGE, 0, position, FALSE,
                      FALSE)
       IN  /\ terrain_map' = p.map
           /\ cluster' = p.coords
           /\ valid' = p.valid
           /\ result' = p.result
    /\ placed' = placed + 1
    /\ op' = "place"
    /\ shape' = {<<0, 0>>}
    /\ terrain' = VILLAGE
    /\ need_ruin' = FALSE
    /\ options' = <<>>
    /\ found' = <<>>
    /\ UNCHANGED <<game_vars, ruin_coords, trans_vars, eval_vars>>

ClustersOf(terrain_type) ==
    /\ e_fn = "none" /\ op \in {"init", "place"}
    /\ Clusters(terrain_type)

IsSetableOnMap(req_ruin) ==
    /\ e_fn = "none" /\ op \in {"init", "place"}
    /\ IsSetable(QueryShape, 1, <<1, 0>>, FALSE, req_ruin)

SetableOptionsOnMap(req_ruin) ==
    /\ e_fn = "none" /\ op \in {"init", "place"}
    /\ SetableOptions(QueryShape, req_ruin)

IsSetableAnywhereOnMap(req_ruin) ==
    /\ e_fn = "none" /\ op \in {"init", "place"}
    /\ IsSetableAnywhere(QueryShape, req_ruin)

\* mutation: surrounding_mask marks the cluster in the map's own array and not
\* in a new one
SurroundingCoords_in_place(coords) ==
    /\ e_fn = "none" /\ op \in {"init", "place"}
    /\ e_fn' = "surrounding_coords"
    /\ e_arg' = coords
    /\ e_out' = Returned(surrounding_coords(coords))
    /\ terrain_map' = [c \in Cells |-> IF c \in coords THEN 1 ELSE terrain_map[c]]
    /\ UNCHANGED <<game_vars, ruin_coords, placed, op, shape, cluster, terrain, need_ruin, valid,
                   result, options, found, trans_vars>>

SurroundingCoords(coords) ==
    /\ e_fn = "none" /\ op \in {"init", "place"}
    /\ e_fn' = "surrounding_coords"
    /\ e_arg' = coords
    /\ e_out' = Returned(surrounding_coords(coords))
    /\ UNCHANGED <<game_vars, grid_vars, trans_vars>>

IsSurrounded(coords) ==
    /\ e_fn = "none" /\ op \in {"init", "place"}
    /\ e_fn' = "is_surrounded"
    /\ e_arg' = coords
    /\ e_out' = is_surrounded(coords, terrain_map)
    /\ UNCHANGED <<game_vars, grid_vars, trans_vars>>

GetSurroundedMountains ==
    /\ e_fn = "none" /\ op \in {"init", "place"}
    /\ e_fn' = "get_surrounded_mountains"
    /\ e_arg' = {}
    /\ e_out' = get_surrounded_mountains(terrain_map)
    /\ UNCHANGED <<game_vars, grid_vars, trans_vars>>

Evaluate(card) ==
    /\ e_fn = "none" /\ op \in {"init", "place"}
    /\ e_fn' = card
    /\ e_arg' = {}
    /\ e_out' = evaluate(card, terrain_map)
    /\ UNCHANGED <<game_vars, grid_vars, trans_vars>>

NextScore ==
    \/ \E pos \in Cells : PlaceVillage(pos)
    \/ \E t \in ClusterTerrains : ClustersOf(t)
    \/ \E coords \in ClustersOnMap : SurroundingCoords(coords)
    \/ \E coords \in ClustersOnMap : IsSurrounded(coords)
    \/ GetSurroundedMountains
    \/ \E card \in ScoringCards : Evaluate(card)
    \/ \E q \in BOOLEAN : IsSetableOnMap(q)
    \/ \E q \in BOOLEAN : SetableOptionsOnMap(q)
    \/ \E q \in BOOLEAN : IsSetableAnywhereOnMap(q)

SpecScore == InitScore /\ [][NextScore]_vars

(* ------------ evaluators on a map with Water, Farm and Monster fields ---- *)
FieldTerrains == {WATER, FARM, MONSTER}

InitFields == InitScore

\* a single field of one terrain is placed; the fields are placed in row-major
\* order of their positions
PlaceField(t, position) ==
    /\ e_fn = "none" /\ op \in {"init", "place"}
    /\ placed < MaxFields
    /\ \A c \in Cells : terrain_map[c] \in FieldTerrains => raster(c) < raster(position)
    /\ LET p == place(terrain_map, ruin_coords, {<<0, 0>>}, t, 0, position, FALSE, FALSE)
       IN  /\ terrain_map' = p.map
           /\ cluster' = p.coords
           /\ valid' = p.valid
           /\ result' = p.result
    /\ placed' = placed + 1
    /\ op' = "place"
    /\ shape' = {<<0, 0>>}
    /\ terrain' = t
    /\ need_ruin' = FALSE
    /\ options' = <<>>
    /\ found' = <<>>
    /\ UNCHANGED <<game_vars, ruin_coords, trans_vars, eval_vars>>

\* is_array: the terrain array is handed over; otherwise the Map object, as
\* CarthographersGame._update_season does
TalDerMagier(is_array) ==
    /\ e_fn = "none" /\ op \in {"init", "place"}
    /\ e_fn' = "tal_der_magier"
    /\ e_arg' = IF is_array THEN Cells ELSE {}
    /\ e_out' = tal_der_magier(terrain_map, is_array)
    /\ UNCHANGED <<game_vars, grid_vars, trans_vars>>

Bewaesserungskanal(is_array) ==
    /\ e_fn = "none" /\ op \in {"init", "place"}
    /\ e_fn' = "bewaesserungskanal"
    /\ e_arg' = IF is_array THEN Cells ELSE {}
    /\ e_out' = bewaesserungskanal(terrain_map, is_array)
    /\ UNCHANGED <<game_vars, grid_vars, trans_vars>>

EvalMonsters ==
    /\ e_fn = "none" /\ op \in {"init", "place"}
    /\ e_fn' = "eval_monsters"
    /\ e_arg' = {}
    /\ e_out' = eval_monsters(terrain_map)
    /\ UNCHANGED <<game_vars, grid_vars, trans_vars>>

NextFields ==
    \/ \E t \in FieldTerrains, pos \in Cells : PlaceField(t, pos)
    \/ \E is_array \in BOOLEAN : TalDerMagier(is_array)
    \/ \E is_array \in BOOLEAN : Bewaesserungskanal(is_array)
    \/ EvalMonsters

SpecFields == InitFields /\ [][NextFields]_vars

(* ------------------------------- the game ------------------------------- *)
\* the map sheet handed to the constructor: map A scaled to MapSize
GameMountains == {<<2, 2>>}
GameRuins == {<<0, 1>>}

\* card orders the shuffle of the default deck can leave
DeckA ==
    <<"Ackerland", "Tempelruinen", "Weiler", "Goblinattacke", "Grosser Strom",
      "Vergessener Wald", "Sumpf", "Obsthain", "Baumwipfeldorf", "Hinterlandbach",
      "Gehoeft", "Fischerdorf", "Splitterland", "Grottenschratueberfall",
      "Koboldansturm", "Gnollangriff", "Verfallener Aussenposten">>

DeckB ==
    <<"Tempelruinen", "Fischerdorf", "Verfallener Aussenposten", "Splitterland",
      "Hinterlandbach", "Grosser Strom", "Ackerland", "Weiler", "Vergessener Wald",
      "Sumpf", "Obsthain", "Baumwipfeldorf", "Gehoeft", "Grottenschratueberfall",
      "Goblinattacke", "Koboldansturm", "Gnollangriff">>

DeckC ==
    <<"Splitterland", "Verfallener Aussenposten", "Vergessener Wald", "Sumpf",
      "Gnollangriff", "Tempelruinen", "Ackerland", "Weiler", "Grosser Strom", "Obsthain",
      "Baumwipfeldorf", "Hinterlandbach", "Gehoeft", "Fischerdorf",
      "Grottenschratueberfall", "Goblinattacke", "Koboldansturm">>

GameDecks == {DeckA, DeckB, DeckC}

\* the default season times, a short game and a game without a season
GameSeasonTimes == { <<8, 8, 7, 6>>, <<2, 1>>, <<>> }

\* the arguments of play
GameOptions == 0 .. MaxOption
GamePositions == {<<0, 0>>, <<0, 1>>, <<2, 2>>}
GameRotations == {0}
GameFields == {NoField, FOREST}

\* the cards the deck has lost between two moments, in the order drawn
popped(before, after) == SubSeq(before, 1, Len(before) - Len(after))

\* the fields as __init__ sets them, before the first card is drawn
new_game(cards, season_times, monster_mode) ==
    [season |-> 0, time |-> 0, ruin |-> FALSE, exploration_card |-> "None",
     cards |-> cards, coins_from_options |-> 0, season_times |-> season_times,
     monster_mode |-> monster_mode,
     season_stats |-> [i \in 1 .. Len(season_times) |-> 0]]

\* the constructor came to its end: the first draw raised nothing
InitGame ==
    /\ terrain_map = new_terrain_map(GameMountains, {})
    /\ ruin_coords = GameRuins
    /\ \E cards \in GameDecks, season_times \in GameSeasonTimes :
          LET d == _draw_exploration_card(new_game(cards, season_times, "random"),
                                          terrain_map, ruin_coords)
          IN  /\ d.err = "none"
              /\ game = d.game
              /\ g_call = [fn |-> "__init__", n |-> 0, i_option |-> 0,
                           position |-> <<0, 0>>, rotation |-> 0, mirror |-> FALSE,
                           single_field |-> NoField, result |-> "None",
                           stage |-> "draw", drawn |-> popped(cards, d.game.cards)]
    /\ placed = 0
    /\ NoCall
    /\ NoTransform
    /\ NoEval

Play(i_option, position, rotation, mirror, single_field) ==
    /\ g_call.n < MaxPlays
    /\ \E r \in {play(game, terrain_map, ruin_coords, i_option, position, rotation,
                     mirror, single_field)} :
           /\ game' = r.game
           /\ terrain_map' = r.map
           /\ g_call' = [fn |-> "play", n |-> g_call.n + 1, i_option |-> i_option,
                         position |-> position, rotation |-> rotation,
                         mirror |-> mirror, single_field |-> single_field,
                         result |-> r.result, stage |-> r.stage,
                         drawn |-> popped(game.cards, r.game.cards)]
    /\ UNCHANGED <<ruin_coords, placed, op, shape, cluster, terrain, need_ruin, valid,
                   result, options, found, trans_vars, eval_vars>>

NextGame ==
    \E i_option \in GameOptions, position \in GamePositions, rotation \in GameRotations,
       single_field \in GameFields : Play(i_option, position, rotation, FALSE, single_field)

SpecGame == InitGame /\ [][NextGame]_vars

(* ================================ claims ================================ *)

(* ---- Map.place ---- *)
\* what the validation of a placement is to report: the first failing check
FirstFailingCheck(coords, req_ruin, tm, ruins) ==
    IF \E c \in coords : c \notin Cells THEN "OutOfBounds"
    ELSE IF \E c \in coords : tm[c] # EMPTY THEN "Occupied"
    ELSE IF req_ruin /\ coords \cap ruins = {} THEN "RuinRequired"
    ELSE "None"

\* C1: a place call whose transformed coordinates fail validation reports an
\* error and leaves every cell of the terrain matrix as it was, so that
\* setable_options for the same shape yields the same placements as before.
C1_PlaceAtomicOnFailure ==
    [][(op' = "place" /\ result' # "ValueError" /\ ~valid')
         => /\ result' # "None"
            /\ terrain_map' = terrain_map
            /\ setable_options(terrain_map', ruin_coords', shape', need_ruin')
                 = setable_options(terrain_map, ruin_coords, shape', need_ruin')]_vars

\* C2: the map is append-only: a cell that holds a terrain other than EMPTY
\* keeps exactly that terrain in every later state.
C2_AppendOnly ==
    [][\A c \in Cells : terrain_map[c] # EMPTY => terrain_map'[c] = terrain_map[c]]_vars

\* C3: place reports the first failing check in the order OutOfBounds,
\* Occupied, RuinRequired, and accepts exactly when none fails.
C3_FirstFailingCheckReported ==
    [][(op' = "place" /\ result' # "ValueError")
         => result' = FirstFailingCheck(cluster', need_ruin', terrain_map, ruin_coords)]_vars

\* C4: whenever place passes validation, it returns normally and every cell at
\* the transformed absolute coordinates holds the given terrain afterwards.
C4_PlaceSuccessWritesTerrain ==
    [][(op' = "place" /\ valid')
         => /\ result' = "None"
            /\ cluster' # {}
            /\ \A c \in cluster' : c \in Cells /\ terrain_map'[c] = terrain']_vars

C4_Witness ==
    /\ op = "place" /\ valid /\ need_ruin /\ result = "None"
    /\ Cardinality(cluster) = 3
    /\ \A c \in cluster : terrain_map[c] = terrain
    /\ \E c \in Cells : terrain_map[c] = MOUNTAIN

(* ---- Map.setable_options / Map.is_setable_anywhere ---- *)
\* the validation of place, stated on absolute coordinates
PassesValidation(coords, req_ruin, tm, ruins) ==
    /\ \A c \in coords : c \in Cells
    /\ \A c \in coords : tm[c] = EMPTY
    /\ req_ruin => \E c \in coords : c \in ruins

ValidPlacements(shape_coords, req_ruin, tm, ruins) ==
    {o \in (0 .. 3) \X Cells \X BOOLEAN :
        PassesValidation(transform_to_map_coords(shape_coords, o[1], o[2], o[3]).coords,
                         req_ruin, tm, ruins)}

\* C5: setable_options yields a triple (rotation, position, mirror) if and
\* only if its absolute coordinates are all on the map, all EMPTY and, when a
\* ruin is required, cover a ruin coordinate.
C5_SetableOptionsSoundComplete ==
    (op = "setable_options" /\ shape # {})
      => /\ result = "None"
         /\ {options[k] : k \in 1 .. Len(options)}
              = ValidPlacements(shape, need_ruin, terrain_map, ruin_coords)

C5_Witness ==
    /\ op = "setable_options" /\ need_ruin /\ Cardinality(shape) = 3
    /\ Len(options) > 0
    /\ \E o \in (0 .. 3) \X Cells \X BOOLEAN :
          /\ o \notin {options[k] : k \in 1 .. Len(options)}
          /\ LET coords == transform_to_map_coords(shape, o[1], o[2], o[3]).coords
             IN  /\ \A c \in coords : c \in Cells
                 /\ \E c \in coords : terrain_map[c] # EMPTY

\* C6: is_setable_anywhere returns True if and only if setable_options yields
\* at least one placement, and returns False without an error otherwise.
C6_SetableAnywhereIffOption ==
    (op = "is_setable_anywhere" /\ shape # {})
      => /\ result \in {"True", "False"}
         /\ (result = "True")
              <=> (ValidPlacements(shape, need_ruin, terrain_map, ruin_coords) # {})

C6_Witness ==
    /\ op = "is_setable_anywhere" /\ shape # {} /\ result = "False"
    /\ \E c \in ruin_coords : terrain_map[c] = EMPTY

(* ---- the transform laws ---- *)
\* C7: four quarter turns in succession (no mirror) give the normalisation of
\* the shape the chain started from.
C7_FullTurnIdentity ==
    (t_orig # {} /\ t_mir = 0 /\ t_rot = 4)
      => t_cur = transform_to_map_coords(t_orig, 0, <<0, 0>>, FALSE).coords

C7_Witness ==
    /\ t_mir = 0 /\ t_rot = 4
    /\ t_orig = {<<-1, 1>>, <<0, 1>>, <<1, 1>>, <<1, 2>>}
    /\ t_cur = {<<0, 0>>, <<1, 0>>, <<2, 0>>, <<2, 1>>}

\* C8: two mirrors in succession (rotation 0) give the normalisation of the
\* shape the chain started from.
C8_MirrorInvolution ==
    (t_orig # {} /\ t_rot = 0 /\ t_mir = 2)
      => t_cur = transform_to_map_coords(t_orig, 0, <<0, 0>>, FALSE).coords

C8_Witness ==
    /\ t_rot = 0 /\ t_mir = 2
    /\ t_orig = {<<-1, 1>>, <<0, 1>>, <<1, 1>>, <<1, 2>>}
    /\ t_cur = {<<0, 0>>, <<1, 0>>, <<2, 0>>, <<2, 1>>}

Orthogonal(a, b) ==
    \/ a[1] = b[1] /\ (a[2] - b[2]) \in {-1, 1}
    \/ a[2] = b[2] /\ (a[1] - b[1]) \in {-1, 1}

\* two cells that touch at a corner only
Diagonal(a, b) == (a[1] - b[1]) \in {-1, 1} /\ (a[2] - b[2]) \in {-1, 1}

RECURSIVE Squared(_, _, _)
Squared(R, S, n) ==
    IF n = 0 THEN R
    ELSE Squared({p \in S \X S : \E m \in S : <<p[1], m>> \in R /\ <<m, p[2]>> \in R},
                 S, n - 1)

\* the pairs of cells of S joined by a path of side-sharing cells of S
\* (paths of up to 2^MapSize steps, no simple path in the map is longer)
Joined(S) ==
    Squared({p \in S \X S : p[1] = p[2] \/ Orthogonal(p[1], p[2])}, S, MapSize)

\* the maximal side-connected parts of S
ComponentsOf(S) ==
    LET J == Joined(S) IN {{d \in S : <<c, d>> \in J} : c \in S}

\* the cells of the map that share a side with a cell of S and are not in S
Boundary(S) == {c \in Cells \ S : \E d \in S : Orthogonal(c, d)}

VillageClusters == ComponentsOf({c \in Cells : terrain_map[c] = VILLAGE})

C12_BoundaryExact ==
    e_fn = "surrounding_coords"
      => LET b == {e_out.val[i] : i \in 1 .. Len(e_out.val)}
             last == MapSize - 1
         IN  /\ e_out.err = "none"
             /\ b = Boundary(e_arg)
             /\ \A c \in Cells : e_arg = {c} =>
                   /\ (c[1] \notin {0, last} /\ c[2] \notin {0, last}) => Len(e_out.val) = 4
                   /\ (c[1] \in {0, last} /\ c[2] \in {0, last}) => Len(e_out.val) = 2

C12_Witness ==
    /\ e_fn = "surrounding_coords" /\ e_arg = {<<1, 1>>} /\ Len(e_out.val) = 4
    /\ terrain_map[<<1, 1>>] = MOUNTAIN
    /\ terrain_map[<<0, 1>>] = VILLAGE

\* C13: is_surrounded of a cluster is true exactly when no cell of its
\* boundary is Empty: false for the lone Mountain on the fresh map, false
\* while one of its four neighbours is Empty, true once all hold a Village.
C13_EnclosureFollowsPlacements ==
    e_fn = "is_surrounded"
      => /\ e_out.err = "none"
         /\ e_out.val = (\A c \in Boundary(e_arg) : terrain_map[c] # EMPTY)

\* C14: a single-cell cluster on the edge is surrounded as soon as its
\* neighbours on the map are all non-Empty, and get_surrounded_mountains
\* counts every Mountain cell so surrounded, those on the edge included.
C14_EdgeEnclosure ==
    /\ (e_fn = "is_surrounded" /\ Cardinality(e_arg) = 1 /\ Cardinality(Boundary(e_arg)) < 4)
         => /\ e_out.err = "none"
            /\ e_out.val = (\A c \in Boundary(e_arg) : terrain_map[c] # EMPTY)
    /\ e_fn = "get_surrounded_mountains"
         => /\ e_out.err = "none"
            /\ e_out.val = Cardinality({m \in Cells :
                               /\ terrain_map[m] = MOUNTAIN
                               /\ \A c \in Boundary({m}) : terrain_map[c] # EMPTY})

\* C15: a scoring card evaluated on a map without any cell of its target
\* terrain returns the integer 0 and raises nothing.
C15_EvaluatorsTotalOnAbsentTerrain ==
    (e_fn \in ScoringCards
       /\ \A c \in Cells : terrain_map[c] \notin target_terrains(e_fn))
      => e_out = Returned(0)

\* C16: schild_des_reiches returns twice the size of the second-largest
\* Village cluster, and 0 when there are fewer than two Village clusters.
C16_SecondLargestCluster ==
    e_fn = "schild_des_reiches"
      => LET cl == VillageClusters
             second(x) == /\ \E y \in cl : y # x /\ Cardinality(y) >= Cardinality(x)
                          /\ \A y, z \in cl :
                                (y # z /\ Cardinality(y) > Cardinality(x))
                                  => Cardinality(z) <= Cardinality(x)
         IN  /\ e_out.err = "none" /\ ~e_out.none
             /\ Cardinality(cl) < 2 => e_out.val = 0
             /\ Cardinality(cl) >= 2
                  => \E x \in cl : second(x) /\ e_out.val = 2 * Cardinality(x)

C18_LargestWithoutMountain ==
    e_fn = "metropole"
      => LET ok == {x \in VillageClusters :
                       \A c \in Boundary(x) : terrain_map[c] # MOUNTAIN}
         IN  /\ e_out.err = "none" /\ ~e_out.none
             /\ e_out.val = IF ok = {} THEN 0 ELSE SetMax({Cardinality(x) : x \in ok})

\* C19: schillernde_ebene returns 3 for each Village cluster whose boundary
\* holds at least 3 distinct terrains other than Empty, whether or not Empty
\* is among them.
C19_BoundaryDiversity ==
    e_fn = "schillernde_ebene"
      => /\ e_out.err = "none" /\ ~e_out.none
         /\ e_out.val = 3 * Cardinality({x \in VillageClusters :
                Cardinality({terrain_map[c] : c \in Boundary(x)} \ {EMPTY}) >= 3})

\* C20: gnomkolonie returns 6 for each Village cluster that contains a 2x2
\* window, counted once, wherever on the map the window lies.
C20_SquareWindow ==
    e_fn = "gnomkolonie"
      => /\ e_out.err = "none" /\ ~e_out.none
         /\ e_out.val = 6 * Cardinality({x \in VillageClusters :
                \E c \in x : {c, <<c[1], c[2] + 1>>, <<c[1] + 1, c[2]>>,
                              <<c[1] + 1, c[2] + 1>>} \subseteq x})

\* the horizontal and vertical neighbours of a cell that hold terrain t
Touches(c, t) == \E d \in Cells : Orthogonal(c, d) /\ terrain_map[d] = t

CellsOf(t) == {c \in Cells : terrain_map[c] = t}

\* C21: bewaesserungskanal is the number of Water cells with a Farm neighbour
\* plus the number of Farm cells with a Water neighbour, tal_der_magier twice
\* the number of Water cells with a Mountain neighbour plus the number of Farm
\* cells with one; only horizontal and vertical neighbours of the cell count
C21_CrossTerrainAdjacency ==
    /\ e_fn = "bewaesserungskanal" =>
          e_out = Returned(Cardinality({c \in CellsOf(WATER) : Touches(c, FARM)})
                           + Cardinality({c \in CellsOf(FARM) : Touches(c, WATER)}))
    /\ e_fn = "tal_der_magier" =>
          e_out = Returned(2 * Cardinality({c \in CellsOf(WATER) : Touches(c, MOUNTAIN)})
                           + Cardinality({c \in CellsOf(FARM) : Touches(c, MOUNTAIN)}))

\* C30: eval_monsters is the number of distinct Empty cells with a Monster
\* neighbour, each counted once, and 0 on a map without a Monster cell
C30_EvalMonsters ==
    e_fn = "eval_monsters" =>
        e_out = Returned(Cardinality({c \in CellsOf(EMPTY) : Touches(c, MONSTER)}))

\* C23: when place passes validation, every cell outside the placement's
\* absolute coordinates keeps its terrain, and the ruin set is unchanged
C23_PlaceFrame ==
    [][(op' = "place" /\ placed' = placed + 1 /\ valid')
         => /\ \A c \in Cells \ cluster' : terrain_map'[c] = terrain_map[c]
            /\ ruin_coords' = ruin_coords]_vars

\* a valid placement away from the shape's own offsets, on a map with a
\* Mountain, that leaves the rest of its rows alone
C23_Witness ==
    /\ op = "place" /\ placed = 1 /\ valid /\ result = "None"
    /\ Cardinality(cluster) = 2
    /\ cluster \cap shape = {}
    /\ \A c \in Cells \ cluster : terrain_map[c] \in {EMPTY, MOUNTAIN, WASTE}
    /\ \E c \in Cells : terrain_map[c] = MOUNTAIN
    /\ \E c \in Cells \ cluster : \E d \in cluster : c[1] = d[1]

\* a call of a placement query, of clusters, of a Cluster query or of a scoring
\* evaluator
ReadOnlyCall ==
    \/ e_fn = "none" /\ e_fn' # "none"
    \/ /\ op \in {"init", "place"}
       /\ op' \in {"is_setable", "setable_options", "is_setable_anywhere", "clusters"}

PlayCall == g_call'.fn = "play" /\ g_call'.n = g_call.n + 1

\* a call of play that came past the placement
AcceptedPlay == PlayCall /\ g_call'.stage \in {"season", "draw"}

GameOver == game.season >= Len(game.season_times)

\* C24: an accepted play adds the time of the played card to the clock; the
\* season goes up by one and the clock back to 0 exactly when the clock has
\* reached the limit of the season, otherwise the season stays
C24_SeasonAdvance ==
    [][AcceptedPlay =>
         LET clock == game.time + card_time(game.exploration_card)
         IN  IF clock >= game.season_times[game.season + 1]
             THEN game'.season = game.season + 1 /\ game'.time = 0
             ELSE game'.season = game.season /\ game'.time = clock]_vars

\* C25: once the season index has reached the number of seasons, play raises
\* InvalidMoveError and changes neither the map nor the game
C25_NoPlayAfterGameOver ==
    [][(PlayCall /\ GameOver)
         => /\ g_call'.result = "InvalidMoveError"
            /\ game' = game
            /\ terrain_map' = terrain_map
            /\ ruin_coords' = ruin_coords]_vars

\* a second play on a finished game was turned down like the first
C25_Witness ==
    /\ g_call.fn = "play" /\ g_call.n = 2
    /\ GameOver
    /\ g_call.result = "InvalidMoveError"
    /\ game.exploration_card # "None"

\* an option of the card in hand has a placement that passes validation
OptionPlaceable(req_ruin) ==
    LET opts == card_options(game.exploration_card)
    IN  \E i \in 1 .. Len(opts) :
            ValidPlacements(opts[i].coords, req_ruin, terrain_map, ruin_coords) # {}

\* C26: play with a single_field raises InvalidMoveError and changes nothing
\* while an option of the card can be placed under the ruin requirement;
\* when none can, it sets the one cell at the position to that terrain and
\* gives no coin
C26_SingleFieldFallback ==
    [][(PlayCall /\ ~GameOver /\ game.exploration_card # "None"
          /\ g_call'.single_field # NoField)
         => IF OptionPlaceable(game.ruin)
            THEN /\ g_call'.result = "InvalidMoveError"
                 /\ terrain_map' = terrain_map
                 /\ game'.season = game.season
                 /\ game'.time = game.time
                 /\ game'.coins_from_options = game.coins_from_options
            ELSE (g_call'.i_option < Len(card_options(game.exploration_card)))
                   => /\ terrain_map' = [terrain_map EXCEPT
                                            ![g_call'.position] = g_call'.single_field]
                      /\ game'.coins_from_options = game.coins_from_options]_vars

\* a single Forest field was placed for a card none of whose options fits
C26_Witness ==
    /\ g_call.fn = "play" /\ g_call.single_field = FOREST
    /\ g_call.stage = "draw" /\ g_call.result = "None"
    /\ terrain_map[g_call.position] = FOREST
    /\ Cardinality({c \in Cells : terrain_map[c] = FOREST}) = 1
    /\ game.coins_from_options = 0

\* C27: play with an i_option that is no index of the card's options, the
\* number of options included, raises InvalidMoveError and changes nothing
C27_InvalidOptionIndex ==
    [][(PlayCall /\ ~GameOver /\ game.exploration_card # "None"
          /\ g_call'.i_option >= Len(card_options(game.exploration_card)))
         => /\ g_call'.result = "InvalidMoveError"
            /\ game' = game
            /\ terrain_map' = terrain_map]_vars

\* the constructor or an accepted play drew cards up to an exploration card
DrawCompleted == g_call.stage = "draw" /\ g_call.result = "None"

\* C28: after a completed draw a set ruin flag means that an option of the
\* card in hand has a valid placement on a ruin, and that a ruin card was
\* drawn since the card before
C28_RuinSatisfiable ==
    (DrawCompleted /\ game.ruin)
      => /\ OptionPlaceable(TRUE)
         /\ \E i \in 1 .. Len(g_call.drawn) : g_call.drawn[i] \in SeqRange(RUIN_CARDS)

\* an accepted play drew a ruin card and a card that fits on a ruin
C28_Witness ==
    /\ g_call.fn = "play" /\ DrawCompleted /\ game.ruin
    /\ \E c \in ruin_coords : terrain_map[c] = EMPTY

\* C29: with the default deck and the season times (8, 8, 7, 6) every draw
\* ends with an exploration card in hand
C29_DrawEndsWithCard ==
    (g_call.stage = "draw" /\ game.season_times = <<8, 8, 7, 6>>)
      => game.exploration_card # "None"

=============================================================================
